---- MODULE Spec2Model ----
(***************************************************************************)
(* NoteSwift authentication core: the OTP lifecycle, session-token         *)
(* issuance and Google account linking of server/routes.ts, over the       *)
(* document store of server/storage.ts (the implementation the routes      *)
(* use: they read `_id`).  Every `await` of a handler is one atomic step   *)
(* of the request that runs it; requests interleave at those steps.        *)
(***************************************************************************)
EXTENDS Integers, Sequences, FiniteSets, TLC

(* ------------------------------ bounds --------------------------------- *)
\* how many times the clock advances
MaxTicks == 2
\* how many OTP records are ever created
MaxOtps == 2
\* how many requests are in flight at once
MaxReq == 2
\* how many notes are ever created
MaxNotes == 2

Reqs == 1..MaxReq

\* how many components that call useAuth() the page mounts at once
MaxHooks == 2
Hooks == 1..MaxHooks

\* the clock advances in steps of ten minutes (in milliseconds)
TickMs == 10 * 60 * 1000

(* ------------------------- program constants --------------------------- *)
\* new Date(Date.now() + 10 * 60 * 1000)
OTP_TTL_MS == 10 * 60 * 1000

\* JWT_EXPIRES_IN = "7d", in the seconds a token's exp claim counts
JWT_EXPIRES_IN == 7 * 24 * 60 * 60

\* process.env.JWT_SECRET, the key only the server signs with
JWT_SECRET == "server-secret"

(* ------------------------------ inputs --------------------------------- *)
Emails == {"a@x.com", "b@x.com"}
MalformedEmail == "not-an-email"
\* req.body.email of signup and login: an address, or a malformed one
EmailInputs == {"a@x.com", MalformedEmail}
\* req.body.email of resend-otp, which tests it for presence: "" is a missing one
ResendEmailInputs == EmailInputs \cup {""}

\* z.string().email()
isEmail(s) == s \in Emails

\* Number.prototype.toString(): the decimal digits of n, most significant first
RECURSIVE toString(_)
toString(n) == IF n < 10 THEN <<n>> ELSE Append(toString(n \div 10), n % 10)

\* Math.floor(Math.random() * 900000): the draws the model makes
RandomDraws == {0, 899999}

\* Math.floor(Math.random() * 900000): every value it can take, Math.random()
\* being at least 0 and less than 1
AllDraws == 0..899999

\* A generator without the offset: the variant of generateOTP that
\* GeneratedCodesAreSixDigits has to tell from it.
generateShortOTP(draw) == toString(draw)

\* Math.floor(100000 + Math.random() * 900000).toString()
generateOTP(draw) == toString(100000 + draw)

\* req.body.code: the codes the generator can produce, and one of five characters
Codes == {generateOTP(d) : d \in RandomDraws}
MalformedCode == <<1, 2, 3, 4, 5>>

\* req.body of the two verifications, { email, code }: any address with any code the
\* generator can produce, and one body for each field that can be malformed
VerifyInputs ==
    {[email |-> e, code |-> c] : e \in Emails, c \in Codes} \cup
    {[email |-> MalformedEmail, code |-> generateOTP(0)],
     [email |-> "a@x.com", code |-> MalformedCode]}

\* z.string().length(6)
isCode(c) == Len(c) = 6

NULL == "null"
NoTempData == [name |-> NULL, dateOfBirth |-> NULL, email |-> NULL]
\* req.body.tempData: missing, or the object signup returned, its email as the
\* client sends it
TempDataInputs ==
    {NoTempData} \cup
    {[name |-> "Ann", dateOfBirth |-> "2000-01-01", email |-> e] : e \in Emails}

\* A Google ID token: sig says whether Google signed it for this client id.
NoIdToken == [sig |-> FALSE, sub |-> NULL, email |-> NULL, name |-> NULL]
IdTokens ==
    {[sig |-> s, sub |-> g, email |-> "a@x.com", name |-> "Ann G"] :
        s \in BOOLEAN, g \in {"g1", "g2"}}
\* req.body.token: missing, forged, or signed by Google for either of two subjects
IdTokenInputs == {NoIdToken} \cup {t \in IdTokens : t.sig \/ t.sub = "g1"}

NoGoogleUser == [id |-> NULL, email |-> NULL, name |-> NULL]

\* client.verifyIdToken + getPayload: the identity, or NoGoogleUser when it throws
verifyGoogleToken(token) ==
    IF token.sig
    THEN [id |-> token.sub, email |-> token.email, name |-> token.name]
    ELSE NoGoogleUser

\* An authorization code: what client.getToken(code) yields for it at Google,
\* an ID token Google signed or none.
AuthCodeInputs ==
    {[present |-> b, id_token |-> NoIdToken] : b \in BOOLEAN} \cup
    {[present |-> TRUE, id_token |-> t] : t \in {t \in IdTokens : t.sig}}

getGoogleUserFromCode(code) ==
    IF code.id_token = NoIdToken THEN NoGoogleUser
    ELSE verifyGoogleToken(code.id_token)

(* ------------------------------- state --------------------------------- *)
VARIABLES
    now,        \* Date.now(), in milliseconds
    users,      \* the users collection
    otps,       \* the otpcodes collection
    nextOtpId,  \* the _id the next OTP record gets
    mailed,     \* how many messages the mail transport has accepted
    req,        \* req[r]: the request handler r is running, and where it is
    out,        \* the response on its way to the client, NoResponse if none is
    consumed,   \* the OTP records a token has been issued on
    notes,      \* the notes collection
    nextNoteId, \* the _id the next note gets
    localStorage, \* the browser's localStorage item "auth_token", NoToken if none
    hooks,      \* hooks[i]: the mounted useAuth instance i and its token state
    meQuery     \* the query ["/api/auth/me"] of the browser's query cache

\* the browser
clientVars == <<localStorage, hooks, meQuery>>

vars == <<now, users, otps, nextOtpId, mailed, req, out, consumed, notes, nextNoteId,
          localStorage, hooks, meQuery>>

NoUser ==
    [_id |-> 0, email |-> NULL, name |-> NULL, dateOfBirth |-> NULL,
     isEmailVerified |-> NULL, googleId |-> NULL, updatedAt |-> 0]
NoOtp == [_id |-> 0, email |-> NULL, code |-> <<>>, expiresAt |-> 0, isUsed |-> NULL]
NoToken == [userId |-> 0, email |-> NULL, iat |-> 0, exp |-> 0, sig |-> NULL]

\* A handler at rest.  email and tempData are the inputs a handler reads after
\* its first await; otpRecord, googleUser, user are its locals.
Idle ==
    [pc |-> "idle", kind |-> "none", email |-> "", tempData |-> NoTempData,
     otpRecord |-> NoOtp, googleUser |-> NoGoogleUser, user |-> NoUser]

\* data is what a notes route sends back: a set of notes
NoResponse ==
    [kind |-> "none", status |-> 0, message |-> "", token |-> NoToken, data |-> {}]

\* A useAuth instance no mounted component holds, and the query
\* ["/api/auth/me"] before anything fetched it: no data, no request in flight.
\* data is a set, empty for the undefined and the null that !!user turns false.
Unmounted == [mounted |-> FALSE, token |-> NoToken]
\* status is the HTTP status the last finished request was answered with, by the
\* instance whose queryFn sent the request in flight, header what it sent.
NoQuery == [data |-> {}, status |-> 0, fetching |-> FALSE, by |-> 0, header |-> <<>>]

(* ------------------------------ storage -------------------------------- *)
\* A lookup that finds nobody: the variant of getUserByEmail that
\* SignupExistingRefused has to tell from it.
findNobody(email) == NoUser

\* User.findOne({ email }).lean()
getUserByEmail(email) ==
    IF \E u \in users : u.email = email
    THEN CHOOSE u \in users : u.email = email
    ELSE NoUser

\* new User(userData).save(): the _id the new document gets
newUserId == Cardinality(users) + 1

\* A collection without the index: the variant of duplicateEmail that
\* EmailStaysUnique has to tell from it.
noDuplicateEmail(email) == FALSE

\* the unique index on users.email
duplicateEmail(email) == \E u \in users : u.email = email

\* A filter on email and code alone: the variant of matchesValid that
\* TokenOnlyAfterProof has to tell from it.
matchesEmailAndCode(o, email, code) == o.email = email /\ o.code = code

\* OTPCode.findOne({ email, code, expiresAt: { $gt: new Date() }, isUsed: "false" })
matchesValid(o, email, code) ==
    /\ o.email = email
    /\ o.code = code
    /\ o.expiresAt > now
    /\ o.isUsed = "false"

\* findOne returns the first match in insertion order
getValidOTPCode(email, code) ==
    IF \E o \in otps : matchesValid(o, email, code)
    THEN CHOOSE o \in otps :
            /\ matchesValid(o, email, code)
            /\ \A p \in otps : matchesValid(p, email, code) => o._id <= p._id
    ELSE NoOtp

\* An update that writes nothing: the variant of markOTPAsUsed that
\* ConsumedRecordNeverAcceptedAgain has to tell from it.
leaveOTPUnused(id) == otps

\* An update that flips the flag: the variant of markOTPAsUsed that
\* MarkingTwiceIsMarkingOnce has to tell from it.
toggleOTPUsed(id) ==
    {IF o._id = id
     THEN [o EXCEPT !.isUsed = IF o.isUsed = "true" THEN "false" ELSE "true"]
     ELSE o : o \in otps}

\* OTPCode.findByIdAndUpdate(id, { isUsed: "true" })
markOTPAsUsed(id) ==
    {IF o._id = id THEN [o EXCEPT !.isUsed = "true"] ELSE o : o \in otps}

\* An insert that first drops the address's earlier records: the variant of
\* createOTPCode that ResendLeavesOtherRecords has to tell from it.
replaceOTPCode(email, code, expiresAt) ==
    {o \in otps : o.email # email} \cup
        {[_id |-> nextOtpId, email |-> email, code |-> code,
          expiresAt |-> expiresAt, isUsed |-> "false"]}

\* An insert that stores the record with an expiry a minute late: the variant of
\* createOTPCode that NewOtpLivesTenMinutes has to tell from it.
createOTPCodeLate(email, code, expiresAt) ==
    otps \cup {[_id |-> nextOtpId, email |-> email, code |-> code,
                expiresAt |-> expiresAt + 60000, isUsed |-> "false"]}

\* new OTPCode({ email, code, expiresAt }).save()
createOTPCode(email, code, expiresAt) ==
    otps \cup {[_id |-> nextOtpId, email |-> email, code |-> code,
                expiresAt |-> expiresAt, isUsed |-> "false"]}

\* A sweep that also deletes what expires within ten minutes: the variant of
\* cleanupExpiredOTPs that SweepKeepsVerifyOutcomes has to tell from it.
cleanupExpiringOTPs ==
    {o \in otps : ~(o.expiresAt <= now + OTP_TTL_MS \/ o.isUsed = "true")}

\* A sweep that deletes the used records only: the variant of
\* cleanupExpiredOTPs that EveryOtpEventuallyDeleted has to tell from it.
cleanupUsedOTPs == {o \in otps : o.isUsed # "true"}

\* OTPCode.deleteMany({ $or: [{ expiresAt: { $lt: new Date() } }, { isUsed: "true" }] })
cleanupExpiredOTPs == {o \in otps : ~(o.expiresAt < now \/ o.isUsed = "true")}

\* The SQL storage kept in the same file:
\* db.delete(otpCodes).where(sql`expires_at < NOW()`)
cleanupExpiredOTPsSql == {o \in otps : ~(o.expiresAt < now)}

\* The SQL storage: select ... where email, code, is_used = 'false', without an
\* order; the first row is taken and returned if new Date() <= expiresAt.  The
\* row that comes first is the database's choice: the set of what the call can
\* return.
getValidOTPCodeSql(email, code) ==
    LET rows == {o \in otps : o.email = email /\ o.code = code /\ o.isUsed = "false"}
    IN  IF rows = {} THEN {NoOtp}
        ELSE {IF now <= o.expiresAt THEN o ELSE NoOtp : o \in rows}

\* jwt.sign(payload, secret, { expiresIn }) at the instant `at`: the payload with
\* iat, the second of signing, and exp = iat + expiresIn, signed with the secret
jwtSign(userId, email, secret, at) ==
    [userId |-> userId, email |-> email, iat |-> at \div 1000,
     exp |-> (at \div 1000) + JWT_EXPIRES_IN, sig |-> secret]

\* jwt.sign({ userId, email }, JWT_SECRET, { expiresIn: JWT_EXPIRES_IN })
generateToken(userId, email) == jwtSign(userId, email, JWT_SECRET, now)

(* ------------------------------ requests ------------------------------- *)
\* A request arrives at a handler at rest; the handler runs to its first await,
\* and each later await is a step of its own.
Arrives(r) == req[r].pc = "idle" /\ out = NoResponse

At(r, kind, pc) == req[r].kind = kind /\ req[r].pc = pc /\ out = NoResponse

\* res.status(status).json({ message, token })
Respond(r, kind, status, message, token) ==
    /\ req' = [req EXCEPT ![r] = Idle]
    /\ out' = [kind |-> kind, status |-> status, message |-> message,
               token |-> token, data |-> {}]
    /\ UNCHANGED <<notes, nextNoteId, clientVars>>

\* the handler goes on to its next await
Await(r, locals) ==
    /\ req' = [req EXCEPT ![r] =
                  [f \in DOMAIN Idle |->
                      IF f \in DOMAIN locals THEN locals[f] ELSE req[r][f]]]
    /\ out' = NoResponse
    /\ UNCHANGED <<notes, nextNoteId, clientVars>>

\* generateOTP(); expiresAt = Date.now() + 10 min;
\* await storage.createOTPCode(email, otpCode, expiresAt);
\* await sendOTPEmail(email, otpCode); res.json({ message })
\* No handler reads what the mail transport holds, so the send is taken in the
\* same step as the insert that precedes it.
IssueOTP(r, kind, email, message) ==
    /\ nextOtpId <= MaxOtps
    /\ \E d \in RandomDraws :
          otps' = createOTPCode(email, generateOTP(d), now + OTP_TTL_MS)
    /\ nextOtpId' = nextOtpId + 1
    /\ mailed' = mailed + 1
    /\ Respond(r, kind, 200, message, NoToken)
    /\ UNCHANGED <<now, users, consumed>>

\* IssueOTP when Math.random() draws d
IssueOTPDrawing(r, kind, email, message, d) ==
    /\ nextOtpId <= MaxOtps
    /\ otps' = createOTPCode(email, generateOTP(d), now + OTP_TTL_MS)
    /\ nextOtpId' = nextOtpId + 1
    /\ mailed' = mailed + 1
    /\ Respond(r, kind, 200, message, NoToken)
    /\ UNCHANGED <<now, users, consumed>>

(* POST /api/auth/signup *)
Signup(r, email) ==
    /\ Arrives(r)
    /\ IF ~isEmail(email)
       THEN Respond(r, "signup", 400, "Validation error", NoToken)
       ELSE IF getUserByEmail(email) # NoUser
       THEN Respond(r, "signup", 400, "User already exists with this email", NoToken)
       ELSE Await(r, [pc |-> "create", kind |-> "signup", email |-> email])
    /\ UNCHANGED <<now, users, otps, nextOtpId, mailed, consumed>>

SignupIssue(r) ==
    /\ At(r, "signup", "create")
    /\ IssueOTP(r, "signup", req[r].email, "Verification code sent to your email")

(* POST /api/auth/verify-otp and POST /api/auth/verify-login-otp, first half *)
\* otpVerificationSchema.parse; await storage.getValidOTPCode(email, code)
VerifyGet(r, kind, email, code, tempData) ==
    /\ IF ~(isEmail(email) /\ isCode(code))
       THEN Respond(r, kind, 400, "Validation error", NoToken)
       ELSE IF getValidOTPCode(email, code) = NoOtp
       THEN Respond(r, kind, 400, "Invalid or expired verification code", NoToken)
       ELSE Await(r, [pc |-> "mark", kind |-> kind, email |-> email,
                      tempData |-> tempData,
                      otpRecord |-> getValidOTPCode(email, code)])
    /\ UNCHANGED <<now, users, otps, nextOtpId, mailed, consumed>>

\* await storage.markOTPAsUsed(otpRecord._id)
VerifyMark(r, pc) ==
    /\ otps' = markOTPAsUsed(req[r].otpRecord._id)
    /\ Await(r, [pc |-> pc])
    /\ UNCHANGED <<now, users, nextOtpId, mailed, consumed>>

\* generateToken(...); res.json({ message, token, user })
IssueToken(r, status, message, user) ==
    /\ Respond(r, req[r].kind, status, message, generateToken(user._id, user.email))
    /\ consumed' = IF req[r].otpRecord = NoOtp THEN consumed
                   ELSE consumed \cup {req[r].otpRecord}

(* POST /api/auth/verify-otp *)
VerifyOtp(r, email, code, tempData) ==
    Arrives(r) /\ VerifyGet(r, "verify-otp", email, code, tempData)

VerifyOtpMark(r) == At(r, "verify-otp", "mark") /\ VerifyMark(r, "createUser")

\* createUser leaving the schema's default for isEmailVerified
tempUnverifiedUser(tempData) ==
    [_id |-> newUserId, email |-> tempData.email, name |-> tempData.name,
     dateOfBirth |-> tempData.dateOfBirth, isEmailVerified |-> "false",
     googleId |-> NULL, updatedAt |-> now]

\* the user storage.createUser({ name, dateOfBirth, email, isEmailVerified }) saves
tempUser(tempData) ==
    [_id |-> newUserId, email |-> tempData.email, name |-> tempData.name,
     dateOfBirth |-> tempData.dateOfBirth, isEmailVerified |-> "true",
     googleId |-> NULL, updatedAt |-> now]

\* reading tempData.name of a missing tempData throws; so does a duplicate email
VerifyOtpCreateUser(r) ==
    /\ At(r, "verify-otp", "createUser")
    /\ IF req[r].tempData = NoTempData \/ duplicateEmail(req[r].tempData.email)
       THEN /\ Respond(r, "verify-otp", 400, "Verification failed", NoToken)
            /\ UNCHANGED <<users, consumed>>
       ELSE /\ users' = users \cup {tempUser(req[r].tempData)}
            /\ IssueToken(r, 200, "Email verified successfully",
                          tempUser(req[r].tempData))
    /\ UNCHANGED <<now, otps, nextOtpId, mailed>>

\* A login that asks only whether the account exists: the variant of Login that
\* LoginUnknownOrUnverifiedRefused has to tell from it.
LoginAnyAccount(r, email) ==
    /\ Arrives(r)
    /\ IF ~isEmail(email)
       THEN Respond(r, "login", 400, "Validation error", NoToken)
       ELSE IF getUserByEmail(email) = NoUser
       THEN Respond(r, "login", 404,
                    "No account found with this email. Please sign up first.", NoToken)
       ELSE Await(r, [pc |-> "create", kind |-> "login", email |-> email])
    /\ UNCHANGED <<now, users, otps, nextOtpId, mailed, consumed>>

(* POST /api/auth/login *)
Login(r, email) ==
    /\ Arrives(r)
    /\ IF ~isEmail(email)
       THEN Respond(r, "login", 400, "Validation error", NoToken)
       ELSE IF getUserByEmail(email) = NoUser
       THEN Respond(r, "login", 404,
                    "No account found with this email. Please sign up first.", NoToken)
       ELSE IF getUserByEmail(email).isEmailVerified # "true"
       THEN Respond(r, "login", 401, "Please verify your email before logging in",
                    NoToken)
       ELSE Await(r, [pc |-> "create", kind |-> "login", email |-> email])
    /\ UNCHANGED <<now, users, otps, nextOtpId, mailed, consumed>>

LoginIssue(r) ==
    /\ At(r, "login", "create")
    /\ IssueOTP(r, "login", req[r].email, "Verification code sent to your email")

(* POST /api/auth/verify-login-otp *)
VerifyLoginOtp(r, email, code) ==
    Arrives(r) /\ VerifyGet(r, "verify-login-otp", email, code, NoTempData)

VerifyLoginMark(r) == At(r, "verify-login-otp", "mark") /\ VerifyMark(r, "getUser")

\* A login verification that stamps the account it finds: the variant of
\* VerifyLoginGetUser that LoginFlowKeepsUsers has to tell from it.
VerifyLoginStampUser(r) ==
    /\ At(r, "verify-login-otp", "getUser")
    /\ IF getUserByEmail(req[r].email) = NoUser
       THEN /\ Respond(r, "verify-login-otp", 404, "User not found", NoToken)
            /\ UNCHANGED <<users, consumed>>
       ELSE /\ users' = {IF u.email = req[r].email
                         THEN [u EXCEPT !.isEmailVerified = "login"] ELSE u : u \in users}
            /\ IssueToken(r, 200, "Login successful", getUserByEmail(req[r].email))
    /\ UNCHANGED <<now, otps, nextOtpId, mailed>>

VerifyLoginGetUser(r) ==
    /\ At(r, "verify-login-otp", "getUser")
    /\ IF getUserByEmail(req[r].email) = NoUser
       THEN /\ Respond(r, "verify-login-otp", 404, "User not found", NoToken)
            /\ consumed' = consumed
       ELSE IssueToken(r, 200, "Login successful", getUserByEmail(req[r].email))
    /\ UNCHANGED <<now, users, otps, nextOtpId, mailed>>

(* POST /api/auth/resend-otp *)
ResendOtp(r, email) ==
    /\ Arrives(r)
    /\ IF email = ""
       THEN /\ Respond(r, "resend-otp", 400, "Email is required", NoToken)
            /\ UNCHANGED <<now, users, otps, nextOtpId, mailed, consumed>>
       ELSE IssueOTP(r, "resend-otp", email, "New verification code sent to your email")

(* POST /api/auth/google and GET /api/auth/google/callback *)
\* what the two routes answer on success and in their catch block
googleOk(kind) ==
    IF kind = "google" THEN <<200, "Google authentication successful">>
    ELSE <<302, "/?token=">>

googleFailed(kind) ==
    IF kind = "google" THEN <<400, "Google authentication failed">>
    ELSE <<302, "/?error=google_auth_failed">>

\* A new account left unverified: the variant of googleNewUser that
\* GoogleCreatesAccount has to tell from it.
googleUnverifiedUser(g) ==
    [_id |-> newUserId, email |-> g.email, name |-> g.name,
     dateOfBirth |-> "1990-01-01", isEmailVerified |-> "false", googleId |-> g.id,
     updatedAt |-> now]

\* storage.createUser({ name, dateOfBirth: "1990-01-01", email, googleId, ... })
googleNewUser(g) ==
    [_id |-> newUserId, email |-> g.email, name |-> g.name,
     dateOfBirth |-> "1990-01-01", isEmailVerified |-> "true", googleId |-> g.id,
     updatedAt |-> now]

\* An update that writes nothing: the variant of updateUser that
\* GoogleLinkKeepsAccount has to tell from it.
leaveUserUnlinked(id, googleId) == users

\* User.findByIdAndUpdate(id, { googleId, updatedAt }, { new: true })
updateUser(id, googleId) ==
    {IF u._id = id THEN [u EXCEPT !.googleId = googleId, !.updatedAt = now]
     ELSE u : u \in users}

\* A lookup that turns a linked account away: the variant of GoogleLookup that
\* GoogleLinkedAccountUnchanged has to tell from it.
GoogleLookupRejectLinked(r, kind, g) ==
    /\ IF g = NoGoogleUser
       THEN Respond(r, kind, googleFailed(kind)[1], googleFailed(kind)[2], NoToken)
       ELSE IF getUserByEmail(g.email) = NoUser
       THEN Await(r, [pc |-> "createUser", kind |-> kind, googleUser |-> g])
       ELSE IF getUserByEmail(g.email).googleId = NULL
       THEN Await(r, [pc |-> "link", kind |-> kind, googleUser |-> g,
                      user |-> getUserByEmail(g.email)])
       ELSE Respond(r, kind, googleFailed(kind)[1], googleFailed(kind)[2], NoToken)
    /\ UNCHANGED <<now, users, otps, nextOtpId, mailed, consumed>>

\* A lookup that links whenever the account exists: the variant of GoogleLookup
\* that GoogleKeepsFirstLink has to tell from it.
GoogleLookupRelink(r, kind, g) ==
    /\ IF g = NoGoogleUser
       THEN Respond(r, kind, googleFailed(kind)[1], googleFailed(kind)[2], NoToken)
       ELSE IF getUserByEmail(g.email) = NoUser
       THEN Await(r, [pc |-> "createUser", kind |-> kind, googleUser |-> g])
       ELSE Await(r, [pc |-> "link", kind |-> kind, googleUser |-> g,
                      user |-> getUserByEmail(g.email)])
    /\ UNCHANGED <<now, users, otps, nextOtpId, mailed, consumed>>

\* The identity g is resolved at the provider, where no state of the program is
\* read; then: let user = await storage.getUserByEmail(googleUser.email)
GoogleLookup(r, kind, g) ==
    /\ IF g = NoGoogleUser
       THEN /\ Respond(r, kind, googleFailed(kind)[1], googleFailed(kind)[2], NoToken)
            /\ consumed' = consumed
       ELSE IF getUserByEmail(g.email) = NoUser
       THEN /\ Await(r, [pc |-> "createUser", kind |-> kind, googleUser |-> g])
            /\ consumed' = consumed
       ELSE IF getUserByEmail(g.email).googleId = NULL
       THEN /\ Await(r, [pc |-> "link", kind |-> kind, googleUser |-> g,
                         user |-> getUserByEmail(g.email)])
            /\ consumed' = consumed
       ELSE /\ Respond(r, kind, googleOk(kind)[1], googleOk(kind)[2],
                       generateToken(getUserByEmail(g.email)._id,
                                     getUserByEmail(g.email).email))
            /\ consumed' = consumed
    /\ UNCHANGED <<now, users, otps, nextOtpId, mailed>>

GoogleCreateUser(r) ==
    /\ At(r, req[r].kind, "createUser")
    /\ IF duplicateEmail(req[r].googleUser.email)
       THEN /\ Respond(r, req[r].kind, googleFailed(req[r].kind)[1],
                       googleFailed(req[r].kind)[2], NoToken)
            /\ UNCHANGED <<users, consumed>>
       ELSE /\ users' = users \cup {googleNewUser(req[r].googleUser)}
            /\ IssueToken(r, googleOk(req[r].kind)[1], googleOk(req[r].kind)[2],
                          googleNewUser(req[r].googleUser))
    /\ UNCHANGED <<now, otps, nextOtpId, mailed>>

GoogleLink(r) ==
    /\ At(r, req[r].kind, "link")
    /\ users' = updateUser(req[r].user._id, req[r].googleUser.id)
    /\ IssueToken(r, googleOk(req[r].kind)[1], googleOk(req[r].kind)[2],
                  [req[r].user EXCEPT !.googleId = req[r].googleUser.id,
                                     !.updatedAt = now])
    /\ UNCHANGED <<now, otps, nextOtpId, mailed>>

(* POST /api/auth/google *)
GooglePost(r, idToken) ==
    /\ Arrives(r)
    /\ IF idToken = NoIdToken
       THEN /\ Respond(r, "google", 400, "Google token is required", NoToken)
            /\ UNCHANGED <<now, users, otps, nextOtpId, mailed, consumed>>
       ELSE GoogleLookup(r, "google", verifyGoogleToken(idToken))

GooglePostCreateUser(r) == req[r].kind = "google" /\ GoogleCreateUser(r)

GooglePostLink(r) == req[r].kind = "google" /\ GoogleLink(r)

(* GET /api/auth/google/callback *)
GoogleCallback(r, code) ==
    /\ Arrives(r)
    /\ IF ~code.present
       THEN /\ Respond(r, "google-callback", 302, "/?error=google_auth_failed", NoToken)
            /\ UNCHANGED <<now, users, otps, nextOtpId, mailed, consumed>>
       ELSE GoogleLookup(r, "google-callback", getGoogleUserFromCode(code))

CallbackCreateUser(r) == req[r].kind = "google-callback" /\ GoogleCreateUser(r)

CallbackLink(r) == req[r].kind = "google-callback" /\ GoogleLink(r)

(* setInterval(() => storage.cleanupExpiredOTPs(), 60 * 60 * 1000) *)
\* The model's clock starts at an arbitrary instant of the server's life, so the
\* timer may be due in any state.
Sweep ==
    /\ out = NoResponse
    /\ otps' = cleanupExpiredOTPs
    /\ UNCHANGED <<now, users, nextOtpId, mailed, req, out, consumed, notes, nextNoteId,
                   clientVars>>

\* otpCodeSchema.index({ expiresAt: 1 }, { expireAfterSeconds: 0 }): the store's
\* TTL monitor deletes, whenever it runs, the documents whose expiresAt has come
ExpireOTPs ==
    /\ out = NoResponse
    /\ otps' = {o \in otps : ~(o.expiresAt <= now)}
    /\ UNCHANGED <<now, users, nextOtpId, mailed, req, out, consumed, notes, nextNoteId,
                   clientVars>>

\* time passes
Tick ==
    /\ out = NoResponse
    /\ now < MaxTicks * TickMs
    /\ now' = now + TickMs
    /\ UNCHANGED <<users, otps, nextOtpId, mailed, req, out, consumed, notes, nextNoteId,
                   clientVars>>

\* The client receives the response.  No handler reads `out`, so the model lets a
\* response be received before anything else happens.
Deliver ==
    /\ out # NoResponse
    /\ out' = NoResponse
    /\ UNCHANGED <<now, users, otps, nextOtpId, mailed, req, consumed, notes, nextNoteId,
                   clientVars>>

(* --------------------------- specifications ---------------------------- *)
\* A document of the users collection that holds the schema's default for
\* isEmailVerified, "false": an account whose email was never verified.
UnverifiedUser ==
    [_id |-> 1, email |-> "a@x.com", name |-> "Ann", dateOfBirth |-> "2000-01-01",
     isEmailVerified |-> "false", googleId |-> NULL, updatedAt |-> 0]

\* The server starts over the collections as they are: none yet, or that account.
Init ==
    /\ now = 0
    /\ users \in {{}, {UnverifiedUser}}
    /\ otps = {}
    /\ nextOtpId = 1
    /\ mailed = 0
    /\ req = [r \in Reqs |-> Idle]
    /\ out = NoResponse
    /\ consumed = {}
    /\ notes = {}
    /\ nextNoteId = 1
    /\ localStorage = NoToken
    /\ hooks = [i \in Hooks |-> Unmounted]
    /\ meQuery = NoQuery

\* a request arrives at handler r
Request(r) ==
    \/ \E e \in EmailInputs : Signup(r, e)
    \/ \E v \in VerifyInputs, t \in TempDataInputs :
          VerifyOtp(r, v.email, v.code, t)
    \/ \E e \in EmailInputs : Login(r, e)
    \/ \E v \in VerifyInputs : VerifyLoginOtp(r, v.email, v.code)
    \/ \E e \in ResendEmailInputs : ResendOtp(r, e)
    \/ \E t \in IdTokenInputs : GooglePost(r, t)
    \/ \E c \in AuthCodeInputs : GoogleCallback(r, c)

\* a request arrives at another handler while handler 1 is running one: the
\* requests that read the store and then write it
Racing(r) ==
    /\ req[1].pc # "idle"
    /\ \E v \in VerifyInputs : VerifyLoginOtp(r, v.email, v.code)

\* a handler resumes after an await
Step(r) ==
    \/ SignupIssue(r)
    \/ VerifyOtpMark(r) \/ VerifyOtpCreateUser(r)
    \/ LoginIssue(r)
    \/ VerifyLoginMark(r) \/ VerifyLoginGetUser(r)
    \/ GooglePostCreateUser(r) \/ GooglePostLink(r)
    \/ CallbackCreateUser(r) \/ CallbackLink(r)

\* requests arrive at any time and interleave at their awaits
Next ==
    \/ Request(1)
    \/ \E r \in Reqs \ {1} : Racing(r)
    \/ \E r \in Reqs : Step(r)
    \/ Sweep
    \/ ExpireOTPs
    \/ Tick
    \/ Deliver

Spec == Init /\ [][Next]_vars

\* one request at a time: a single handler, which takes a request when at rest
SeqNext ==
    \/ Request(1)
    \/ Step(1)
    \/ Sweep
    \/ ExpireOTPs
    \/ Tick
    \/ Deliver

SeqSpec == Init /\ [][SeqNext]_vars

(* ------------------------ failing collaborators ------------------------ *)
\* The store, the mail transport and the identity provider can fail any call.
\* The lookups of the storage catch the failure and return null; its writes log
\* and rethrow; sendOTPEmail throws a new Error; each route's catch block then
\* answers.

\* what the catch block of a route answers to an exception that is no ZodError
caught(kind) ==
    CASE kind = "signup" -> <<400, "Signup failed">>
      [] kind = "login" -> <<400, "Login failed">>
      [] kind = "resend-otp" -> <<500, "Failed to resend verification code">>
      [] kind \in {"verify-otp", "verify-login-otp"} -> <<400, "Verification failed">>
      [] OTHER -> googleFailed(kind)

\* await storage.createOTPCode(...) rejects: nothing is saved and nothing is mailed
CreateOTPFails(r, kind) ==
    /\ Respond(r, kind, caught(kind)[1], caught(kind)[2], NoToken)
    /\ UNCHANGED <<now, users, otps, nextOtpId, mailed, consumed>>

\* A send that fails without a word: the variant of SendFails that
\* FailedSendFailsRequest has to tell from it.
SendFailsSilently(r, kind, email) ==
    /\ nextOtpId <= MaxOtps
    /\ \E d \in RandomDraws :
          otps' = createOTPCode(email, generateOTP(d), now + OTP_TTL_MS)
    /\ nextOtpId' = nextOtpId + 1
    /\ Respond(r, kind, 200, "Verification code sent to your email", NoToken)
    /\ UNCHANGED <<now, users, mailed, consumed>>

\* await storage.createOTPCode(...) has saved the record; transporter.sendMail
\* rejects and sendOTPEmail throws "Failed to send verification email"
SendFails(r, kind, email) ==
    /\ nextOtpId <= MaxOtps
    /\ \E d \in RandomDraws :
          otps' = createOTPCode(email, generateOTP(d), now + OTP_TTL_MS)
    /\ nextOtpId' = nextOtpId + 1
    /\ Respond(r, kind, caught(kind)[1], caught(kind)[2], NoToken)
    /\ UNCHANGED <<now, users, mailed, consumed>>

\* signup: User.findOne rejects, getUserByEmail returns null, and the handler
\* goes on as for an address nobody has
SignupLookupFails(r, email) ==
    /\ Arrives(r)
    /\ isEmail(email)
    /\ Await(r, [pc |-> "create", kind |-> "signup", email |-> email])
    /\ UNCHANGED <<now, users, otps, nextOtpId, mailed, consumed>>

SignupCreateFails(r) == At(r, "signup", "create") /\ CreateOTPFails(r, "signup")

SignupSendFails(r) == At(r, "signup", "create") /\ SendFails(r, "signup", req[r].email)

\* login: User.findOne rejects, getUserByEmail returns null
LoginLookupFails(r, email) ==
    /\ Arrives(r)
    /\ isEmail(email)
    /\ Respond(r, "login", 404,
               "No account found with this email. Please sign up first.", NoToken)
    /\ UNCHANGED <<now, users, otps, nextOtpId, mailed, consumed>>

LoginCreateFails(r) == At(r, "login", "create") /\ CreateOTPFails(r, "login")

LoginSendFails(r) == At(r, "login", "create") /\ SendFails(r, "login", req[r].email)

ResendCreateFails(r, email) ==
    Arrives(r) /\ email # "" /\ CreateOTPFails(r, "resend-otp")

ResendSendFails(r, email) ==
    Arrives(r) /\ email # "" /\ SendFails(r, "resend-otp", email)

\* the two verifications: OTPCode.findOne rejects, getValidOTPCode returns null
VerifyGetFails(r, kind, email, code) ==
    /\ Arrives(r)
    /\ isEmail(email) /\ isCode(code)
    /\ Respond(r, kind, 400, "Invalid or expired verification code", NoToken)
    /\ UNCHANGED <<now, users, otps, nextOtpId, mailed, consumed>>

\* await storage.markOTPAsUsed(otpRecord._id) rejects
VerifyMarkFails(r) ==
    /\ req[r].kind \in {"verify-otp", "verify-login-otp"}
    /\ At(r, req[r].kind, "mark")
    /\ Respond(r, req[r].kind, 400, "Verification failed", NoToken)
    /\ UNCHANGED <<now, users, otps, nextOtpId, mailed, consumed>>

\* verify-otp: await storage.createUser(...) rejects
VerifyOtpCreateUserFails(r) ==
    /\ At(r, "verify-otp", "createUser")
    /\ Respond(r, "verify-otp", 400, "Verification failed", NoToken)
    /\ UNCHANGED <<now, users, otps, nextOtpId, mailed, consumed>>

\* verify-login-otp: User.findOne rejects, getUserByEmail returns null
VerifyLoginLookupFails(r) ==
    /\ At(r, "verify-login-otp", "getUser")
    /\ Respond(r, "verify-login-otp", 404, "User not found", NoToken)
    /\ UNCHANGED <<now, users, otps, nextOtpId, mailed, consumed>>

\* the Google routes: User.findOne rejects, getUserByEmail returns null, and
\* the handler goes on to create the account
GoogleLookupFails(r, kind, g) ==
    /\ Arrives(r)
    /\ g # NoGoogleUser
    /\ Await(r, [pc |-> "createUser", kind |-> kind, googleUser |-> g])
    /\ UNCHANGED <<now, users, otps, nextOtpId, mailed, consumed>>

GooglePostLookupFails(r, idToken) ==
    idToken # NoIdToken /\ GoogleLookupFails(r, "google", verifyGoogleToken(idToken))

CallbackLookupFails(r, code) ==
    code.present /\ GoogleLookupFails(r, "google-callback", getGoogleUserFromCode(code))

\* a call of handler r to a collaborator fails
Fails(r) ==
    \/ \E e \in EmailInputs : SignupLookupFails(r, e)
    \/ SignupCreateFails(r)
    \/ SignupSendFails(r)
    \/ \E e \in EmailInputs : LoginLookupFails(r, e)
    \/ LoginCreateFails(r)
    \/ LoginSendFails(r)
    \/ \E e \in ResendEmailInputs : ResendCreateFails(r, e)
    \/ \E e \in ResendEmailInputs : ResendSendFails(r, e)
    \/ \E v \in VerifyInputs :
          \/ VerifyGetFails(r, "verify-otp", v.email, v.code)
          \/ VerifyGetFails(r, "verify-login-otp", v.email, v.code)
    \/ VerifyMarkFails(r)
    \/ VerifyOtpCreateUserFails(r)
    \/ VerifyLoginLookupFails(r)
    \/ \E t \in IdTokenInputs : GooglePostLookupFails(r, t)
    \/ \E c \in AuthCodeInputs : CallbackLookupFails(r, c)

\* one request at a time, over collaborators that can fail
FaultNext ==
    \/ SeqNext
    \/ Fails(1)

FaultSpec == Init /\ [][FaultNext]_vars

(* -------------------------- the code generator -------------------------- *)
\* the draws the generator is followed on: the ends of the range, and draws
\* around every power of ten
GenDraws ==
    {0, 1, 9, 10, 99, 100, 999, 1000, 9999, 10000, 99999, 100000, 399999, 400000,
     899990, 899998, 899999}

\* POST /api/auth/resend-otp with an address, Math.random() drawing d
ResendOtpDrawing(r, email, d) ==
    /\ Arrives(r)
    /\ nextOtpId <= MaxOtps
    /\ otps' = createOTPCode(email, generateOTP(d), now + OTP_TTL_MS)
    /\ nextOtpId' = nextOtpId + 1
    /\ mailed' = mailed + 1
    /\ Respond(r, "resend-otp", 200, "New verification code sent to your email", NoToken)
    /\ UNCHANGED <<now, users, consumed>>

\* codes are requested one after the other
GenNext ==
    \/ \E d \in GenDraws : ResendOtpDrawing(1, "a@x.com", d)
    \/ Deliver

GenSpec == Init /\ [][GenNext]_vars

(* ------------------------- racing registrations ------------------------- *)
\* Two handlers, each running a verify-otp or a Google sign-in with an identity
\* Google vouches for, on codes that resend-otp issues: the requests that look a
\* user up and create one in two store calls.
RaceRequest(r) ==
    \/ \E v \in {v \in VerifyInputs : isEmail(v.email) /\ isCode(v.code)},
          t \in TempDataInputs \ {NoTempData} :
          VerifyOtp(r, v.email, v.code, t)
    \/ \E t \in {t \in IdTokens : t.sig} : GooglePost(r, t)

RaceStep(r) ==
    \/ VerifyOtpMark(r) \/ VerifyOtpCreateUser(r)
    \/ GooglePostCreateUser(r) \/ GooglePostLink(r)

RaceNext ==
    \/ \E e \in Emails : ResendOtp(1, e)
    \/ \E r \in Reqs : RaceRequest(r)
    \/ \E r \in Reqs : RaceStep(r)
    \/ Deliver

RaceSpec == Init /\ [][RaceNext]_vars

(* --------------------------- codes and flows ---------------------------- *)
\* One request at a time, in the behaviours in which Math.random() draws 0 for
\* every code that signup issues and 899999 for every code that login issues,
\* and no code is resent: there the code of a record tells the flow that
\* issued it.
SignupDraw == 0
LoginDraw == 899999

SignupIssueDrawing(r) ==
    /\ At(r, "signup", "create")
    /\ IssueOTPDrawing(r, "signup", req[r].email,
                       "Verification code sent to your email", SignupDraw)

LoginIssueDrawing(r) ==
    /\ At(r, "login", "create")
    /\ IssueOTPDrawing(r, "login", req[r].email,
                       "Verification code sent to your email", LoginDraw)

FlowNext ==
    \/ \E e \in EmailInputs : Signup(1, e)
    \/ SignupIssueDrawing(1)
    \/ \E v \in VerifyInputs, t \in TempDataInputs : VerifyOtp(1, v.email, v.code, t)
    \/ VerifyOtpMark(1) \/ VerifyOtpCreateUser(1)
    \/ \E e \in EmailInputs : Login(1, e)
    \/ LoginIssueDrawing(1)
    \/ \E v \in VerifyInputs : VerifyLoginOtp(1, v.email, v.code)
    \/ VerifyLoginMark(1) \/ VerifyLoginGetUser(1)
    \/ \E t \in IdTokenInputs : GooglePost(1, t)
    \/ GooglePostCreateUser(1) \/ GooglePostLink(1)
    \/ Deliver

FlowSpec == Init /\ [][FlowNext]_vars

(* ------------------------------ progress -------------------------------- *)
\* One request at a time, with the timers and the sending of responses going
\* on: setInterval fires the sweep every hour whatever the requests do, the
\* clock advances, and a response that was written is sent.  Sweep and Tick
\* wait for the response under way to be received only in the model, which is
\* why they are given strong fairness.
LiveSpec ==
    /\ Init
    /\ [][SeqNext]_vars
    /\ SF_vars(Sweep)
    /\ SF_vars(Tick)
    /\ WF_vars(Deliver)

(* -------------------------- protected routes --------------------------- *)
\* jwt.verify(token, JWT_SECRET): what it throws, "ok" when it returns the
\* payload.  A token that does not decode or is not signed with the secret is a
\* JsonWebTokenError; a signed one is expired from the second exp on.
verifyTokenForever(token) ==
    IF token.sig # JWT_SECRET THEN "JsonWebTokenError" ELSE "ok"

verifyToken(token) ==
    IF token.sig # JWT_SECRET THEN "JsonWebTokenError"
    ELSE IF now \div 1000 >= token.exp THEN "TokenExpiredError"
    ELSE "ok"

\* authHeader && authHeader.split(" ")[1]: the header as its parts, <<>> when
\* the request has none; NoToken is the undefined of a missing second part
bearer(header) == IF Len(header) >= 2 THEN header[2] ELSE NoToken

\* A middleware that lets every request with a token through: the variant of
\* authenticateToken that ProtectedRoutesDenied has to tell from it.
authenticateAnyToken(header, kind) ==
    IF bearer(header) = NoToken
    THEN [kind |-> kind, status |-> 401, message |-> "Access token required",
          token |-> NoToken, data |-> {}]
    ELSE NoResponse

\* A middleware that says which tokens are expired: the variant of
\* authenticateToken that ExpiredLooksLikeInvalid has to tell from it.
authenticateTokenTelling(header, kind) ==
    IF bearer(header) = NoToken
    THEN [kind |-> kind, status |-> 401, message |-> "Access token required",
          token |-> NoToken, data |-> {}]
    ELSE IF verifyToken(bearer(header)) # "ok"
    THEN [kind |-> kind, status |-> 403,
          message |-> verifyToken(bearer(header)), token |-> NoToken, data |-> {}]
    ELSE NoResponse

\* authenticateToken: the response it sends, NoResponse when it calls next()
authenticateToken(header, kind) ==
    IF bearer(header) = NoToken
    THEN [kind |-> kind, status |-> 401, message |-> "Access token required",
          token |-> NoToken, data |-> {}]
    ELSE IF verifyToken(bearer(header)) # "ok"
    THEN [kind |-> kind, status |-> 403, message |-> "Invalid or expired token",
          token |-> NoToken, data |-> {}]
    ELSE NoResponse

\* User.findById(id).lean()
getUser(id) ==
    IF \E u \in users : u._id = id THEN CHOOSE u \in users : u._id = id ELSE NoUser

\* Note.find({ userId })
getNotesByUserId(userId) == {n \in notes : n.userId = userId}

\* new Note({ ...noteData, userId }).save()
newNote(userId, noteData) ==
    [_id |-> nextNoteId, userId |-> userId, title |-> noteData.title,
     content |-> noteData.content]

\* what { ...updates } writes into a note: the fields the body carries
updated(n, updates) ==
    [n EXCEPT !.title = IF updates.title = NULL THEN @ ELSE updates.title,
              !.content = IF updates.content = NULL THEN @ ELSE updates.content]

\* A filter on the note's _id alone: the variant of matchesNote that
\* NotesOfOthersOutOfReach has to tell from it.
matchesNoteId(n, id, userId) == n._id = id

\* the filter { _id: id, userId } of findOneAndUpdate and findOneAndDelete
matchesNote(n, id, userId) == n._id = id /\ n.userId = userId

\* Note.findOneAndUpdate({ _id: id, userId }, { ...updates }, { new: true })
updateNote(id, userId, updates) ==
    {IF matchesNote(n, id, userId) THEN updated(n, updates) ELSE n : n \in notes}

\* Note.findOneAndDelete({ _id: id, userId })
deleteNote(id, userId) == {n \in notes : ~matchesNote(n, id, userId)}

\* createNoteSchema: title and content, each of one character at least
validNewNote(body) ==
    body.title \notin {NULL, ""} /\ body.content \notin {NULL, ""}

\* updateNoteSchema: title and content optional, neither empty, one at least
validUpdate(body) ==
    /\ body.title # "" /\ body.content # ""
    /\ body.title # NULL \/ body.content # NULL

\* res.status(status).json(...) of a protected route
Reply(kind, status, message, data) ==
    out' = [kind |-> kind, status |-> status, message |-> message,
            token |-> NoToken, data |-> data]

\* the stores other than the notes collection, the handlers, and the browser
apiFrame == <<now, users, otps, nextOtpId, mailed, req, consumed, clientVars>>

(* GET /api/auth/me *)
GetMe(r, header) ==
    /\ Arrives(r)
    /\ IF authenticateToken(header, "me") # NoResponse
       THEN out' = authenticateToken(header, "me")
       ELSE IF getUser(bearer(header).userId) = NoUser
       THEN Reply("me", 404, "User not found", {})
       ELSE Reply("me", 200, "",
                  {[id |-> getUser(bearer(header).userId)._id,
                    name |-> getUser(bearer(header).userId).name,
                    email |-> getUser(bearer(header).userId).email]})
    /\ UNCHANGED <<apiFrame, notes, nextNoteId>>

(* GET /api/notes *)
GetNotes(r, header) ==
    /\ Arrives(r)
    /\ IF authenticateToken(header, "get-notes") # NoResponse
       THEN out' = authenticateToken(header, "get-notes")
       ELSE Reply("get-notes", 200, "", getNotesByUserId(bearer(header).userId))
    /\ UNCHANGED <<apiFrame, notes, nextNoteId>>

(* POST /api/notes *)
CreateNote(r, header, body) ==
    /\ Arrives(r)
    /\ nextNoteId <= MaxNotes
    /\ IF authenticateToken(header, "create-note") # NoResponse
       THEN /\ out' = authenticateToken(header, "create-note")
            /\ UNCHANGED <<notes, nextNoteId>>
       ELSE IF ~validNewNote(body)
       THEN /\ Reply("create-note", 400, "Validation error", {})
            /\ UNCHANGED <<notes, nextNoteId>>
       ELSE /\ notes' = notes \cup {newNote(bearer(header).userId, body)}
            /\ nextNoteId' = nextNoteId + 1
            /\ Reply("create-note", 201, "", {newNote(bearer(header).userId, body)})
    /\ UNCHANGED apiFrame

(* PUT /api/notes/:id *)
UpdateNote(r, header, id, body) ==
    /\ Arrives(r)
    /\ IF authenticateToken(header, "update-note") # NoResponse
       THEN /\ out' = authenticateToken(header, "update-note")
            /\ notes' = notes
       ELSE IF ~validUpdate(body)
       THEN /\ Reply("update-note", 400, "Validation error", {})
            /\ notes' = notes
       ELSE /\ notes' = updateNote(id, bearer(header).userId, body)
            /\ IF \E n \in notes : matchesNote(n, id, bearer(header).userId)
               THEN Reply("update-note", 200, "",
                          {updated(n, body) : n \in
                              {m \in notes : matchesNote(m, id, bearer(header).userId)}})
               ELSE Reply("update-note", 404, "Note not found", {})
    /\ UNCHANGED <<apiFrame, nextNoteId>>

(* DELETE /api/notes/:id *)
DeleteNote(r, header, id) ==
    /\ Arrives(r)
    /\ IF authenticateToken(header, "delete-note") # NoResponse
       THEN /\ out' = authenticateToken(header, "delete-note")
            /\ notes' = notes
       ELSE /\ notes' = deleteNote(id, bearer(header).userId)
            /\ IF \E n \in notes : matchesNote(n, id, bearer(header).userId)
               THEN Reply("delete-note", 200, "Note deleted successfully", {})
               ELSE Reply("delete-note", 404, "Note not found", {})
    /\ UNCHANGED <<apiFrame, nextNoteId>>

\* The accounts the protected routes are called for: two that signup and its
\* verification created at time 0.
ApiUsers ==
    {[_id |-> 1, email |-> "a@x.com", name |-> "Ann", dateOfBirth |-> "2000-01-01",
      isEmailVerified |-> "true", googleId |-> NULL, updatedAt |-> 0],
     [_id |-> 2, email |-> "b@x.com", name |-> "Ann", dateOfBirth |-> "2000-01-01",
      isEmailVerified |-> "true", googleId |-> NULL, updatedAt |-> 0]}

\* the instants, in milliseconds, at which the server signed the tokens that
\* clients present: on a second, and in the middle of the next one
IssueTimes == {0, 1500}

\* what generateToken returned to each account at each of those instants
Issued ==
    {[at |-> t, token |-> jwtSign(u._id, u.email, JWT_SECRET, t)] :
        u \in ApiUsers, t \in IssueTimes}

\* a string that is no JWT: nothing decodes, nothing is signed
MalformedJwt == [userId |-> 0, email |-> NULL, iat |-> 0, exp |-> 0, sig |-> "none"]

\* a token for account 2 signed with a key that is not the server's
ForgedJwt == jwtSign(2, "b@x.com", "other-secret", 0)

BearerTokens == {i.token : i \in Issued} \cup {MalformedJwt, ForgedJwt}

\* req.headers["authorization"] split at the blank: no header, a scheme with no
\* token, a scheme with a token
Headers == {<<>>, <<"Bearer">>} \cup {<<"Bearer", t>> : t \in BearerTokens}

\* req.params.id: the ids notes get
NoteIds == 1..MaxNotes

\* req.body of POST and PUT /api/notes: NULL is a field the body lacks
NoteBodies ==
    {[title |-> t, content |-> c] : t \in {NULL, "", "t1", "t2"}, c \in {NULL, "c1"}}

SevenDaysMs == JWT_EXPIRES_IN * 1000

\* the instants at which requests arrive: around each token's last second, an
\* hour before seven days are over and an hour after
Instants ==
    IssueTimes \cup {SevenDaysMs - 3600000, SevenDaysMs - 1, SevenDaysMs,
                     SevenDaysMs + 1000, SevenDaysMs + 1500, SevenDaysMs + 3600000,
                     SevenDaysMs + 3601500}

\* time passes, to a later one of those instants
Wait ==
    /\ out = NoResponse
    /\ \E t \in Instants : t > now /\ now' = t
    /\ UNCHANGED <<users, otps, nextOtpId, mailed, req, out, consumed, notes,
                   nextNoteId, clientVars>>

ApiInit ==
    /\ now = 0
    /\ users = ApiUsers
    /\ otps = {}
    /\ nextOtpId = 1
    /\ mailed = 0
    /\ req = [r \in Reqs |-> Idle]
    /\ out = NoResponse
    /\ consumed = {}
    /\ notes = {}
    /\ nextNoteId = 1
    /\ localStorage = NoToken
    /\ hooks = [i \in Hooks |-> Unmounted]
    /\ meQuery = NoQuery

\* the protected routes, one request at a time
ApiNext ==
    \/ \E h \in Headers : GetMe(1, h)
    \/ \E h \in Headers : GetNotes(1, h)
    \/ \E h \in Headers, b \in NoteBodies : CreateNote(1, h, b)
    \/ \E h \in Headers, i \in NoteIds, b \in NoteBodies : UpdateNote(1, h, i, b)
    \/ \E h \in Headers, i \in NoteIds : DeleteNote(1, h, i)
    \/ Wait
    \/ Deliver

ApiSpec == ApiInit /\ [][ApiNext]_vars

(* ------------------------------ the browser ---------------------------- *)
\* what the browser does not hold
serverVars == <<now, users, otps, nextOtpId, mailed, req, consumed, notes, nextNoteId>>

\* isAuthenticated: !!user && !!token, as the instance i of useAuth returns it
isAuthenticated(i) ==
    hooks[i].mounted /\ meQuery.data # {} /\ hooks[i].token # NoToken

\* setToken(token) of instance i: the state of that component and of no other;
\* nothing once the component is gone
setToken(i, token) ==
    [j \in Hooks |-> IF j = i /\ hooks[j].mounted
                     THEN [mounted |-> TRUE, token |-> token] ELSE hooks[j]]

\* a component that calls useAuth() mounts: useState's initializer reads
\* localStorage.getItem("auth_token")
Mount(i) ==
    /\ ~ hooks[i].mounted
    /\ hooks' = [hooks EXCEPT ![i] = [mounted |-> TRUE, token |-> localStorage]]
    /\ UNCHANGED <<localStorage, meQuery, out, serverVars>>

\* the component unmounts; a request its queryFn sent stays in flight
Unmount(i) ==
    /\ hooks[i].mounted
    /\ hooks' = [hooks EXCEPT ![i] = Unmounted]
    /\ meQuery' = IF meQuery.by = i THEN [meQuery EXCEPT !.by = 0] ELSE meQuery
    /\ UNCHANGED <<localStorage, out, serverVars>>

\* login(newToken) of instance i, as OTPForm's onSuccess calls it with
\* data.token and as the effect calls it with the ?token= of the URL.
\* invalidateQueries marks the query stale; the refetch is Fetch.
LoginCall(i, newToken) ==
    /\ hooks[i].mounted
    /\ localStorage' = newToken
    /\ hooks' = setToken(i, newToken)
    /\ UNCHANGED <<meQuery, out, serverVars>>

\* logout() that forgets to call setToken(null)
LogoutStorageOnly(i) ==
    /\ hooks[i].mounted
    /\ localStorage' = NoToken
    /\ UNCHANGED <<hooks, meQuery, out, serverVars>>

\* logout() of instance i
LogoutCall(i) ==
    /\ hooks[i].mounted
    /\ localStorage' = NoToken
    /\ hooks' = setToken(i, NoToken)
    /\ UNCHANGED <<meQuery, out, serverVars>>

\* The query runs a queryFn.  The cache holds one query for the key, every
\* mounted instance observes it with its own queryFn and its own enabled:
\* !!token; which instance's queryFn a fetch runs is the library's choice, so it
\* is any mounted one's, while one observer at least is enabled.  With no token
\* the queryFn returns null at once, with one it sends GET /api/auth/me.
Fetch(i) ==
    /\ hooks[i].mounted
    /\ \E j \in Hooks : hooks[j].mounted /\ hooks[j].token # NoToken
    /\ ~ meQuery.fetching
    /\ meQuery' = IF hooks[i].token = NoToken
                  THEN [meQuery EXCEPT !.data = {}]
                  ELSE [meQuery EXCEPT !.fetching = TRUE, !.by = i,
                                       !.header = <<"Bearer", hooks[i].token>>]
    /\ UNCHANGED <<localStorage, hooks, out, serverVars>>

\* the server answers the request in flight
ServeMe == meQuery.fetching /\ GetMe(1, meQuery.header)

\* the queryFn goes on after await fetch(...): on 401 and 403 it removes the
\* item and calls its own instance's setToken(null) and returns null, on another
\* failure it throws and the query keeps its data, else it returns the body
ReceiveMe ==
    /\ meQuery.fetching
    /\ out.kind = "me"
    /\ out' = NoResponse
    /\ IF out.status \in {401, 403}
       THEN /\ localStorage' = NoToken
            /\ hooks' = setToken(meQuery.by, NoToken)
       ELSE UNCHANGED <<localStorage, hooks>>
    /\ meQuery' = [data |-> IF out.status = 200 THEN out.data
                            ELSE IF out.status \in {401, 403} THEN {}
                            ELSE meQuery.data,
                   status |-> out.status, fetching |-> FALSE, by |-> 0,
                   header |-> <<>>]
    /\ UNCHANGED serverVars

\* the tokens a page can come to hold: the ones the server sent, and whatever
\* stands in the URL's ?token=
ClientNext ==
    \/ \E i \in Hooks : Mount(i)
    \/ \E i \in Hooks : Unmount(i)
    \/ \E i \in Hooks, t \in BearerTokens : LoginCall(i, t)
    \/ \E i \in Hooks : LogoutCall(i)
    \/ \E i \in Hooks : Fetch(i)
    \/ ServeMe
    \/ ReceiveMe
    \/ Wait

ClientSpec == ApiInit /\ [][ClientNext]_vars

(* ------------------------------ properties ----------------------------- *)
\* C1: a session token is issued only by a request that first obtained, from
\* getValidOTPCode, a stored record that was unexpired, unused and matched the
\* request's email and code, or that first obtained an identity Google signed;
\* this holds on the signup verification, the login verification, POST
\* /auth/google and GET /auth/google/callback.
TokenOnlyAfterProof ==
    [][\A r \in Reqs :
        \* a verification goes past getValidOTPCode only with such a record
        /\ req[r].pc = "idle" /\ req'[r].pc = "mark"
           => /\ req'[r].otpRecord \in otps
              /\ req'[r].otpRecord.email = req'[r].email
              /\ req'[r].otpRecord.isUsed = "false"
              /\ now <= req'[r].otpRecord.expiresAt
              /\ \A v \in VerifyInputs, t \in TempDataInputs :
                    VerifyOtp(r, v.email, v.code, t) \/ VerifyLoginOtp(r, v.email, v.code)
                    => v.email = req'[r].email /\ v.code = req'[r].otpRecord.code
        \* and answers with a token only if it went past it
        /\ /\ req[r].kind \in {"verify-otp", "verify-login-otp"}
           /\ req'[r] = Idle
           /\ out'.token # NoToken
           => req[r].otpRecord # NoOtp
        \* a Google sign-in goes past the provider only with a signed identity
        /\ /\ req[r].pc = "idle"
           /\ \/ req'[r].kind \in {"google", "google-callback"}
              \/ out'.kind \in {"google", "google-callback"} /\ out'.token # NoToken
           => /\ \A t \in IdTokenInputs : GooglePost(r, t) => t.sig
              /\ \A c \in AuthCodeInputs : GoogleCallback(r, c) => c.id_token.sig
        \* and answers with a token after an await only if it went past it
        /\ /\ req[r].kind \in {"google", "google-callback"}
           /\ req'[r] = Idle
           /\ out'.token # NoToken
           => req[r].googleUser # NoGoogleUser
        \* signup, login and resend-otp answer with no token
        /\ /\ req'[r] = Idle
           /\ out'.kind \in {"signup", "login", "resend-otp"}
           => out'.token = NoToken
      ]_vars

\* C1: a signup verification has answered with a token, on a record of the store
TokenAfterOTP ==
    /\ out.kind = "verify-otp"
    /\ out.token # NoToken
    /\ \E c \in consumed : c.isUsed = "false" /\ c.email \in Emails

\* C2: a verify-otp request for email E that succeeds creates the user with
\* email E and answers with a token for E, whatever email tempData carries.
VerifiedEmailIsAccountEmail ==
    [][\A r \in Reqs :
        VerifyOtpCreateUser(r) /\ out'.token # NoToken
        => /\ out'.token.email = req[r].email
           /\ \A u \in users' \ users : u.email = req[r].email
      ]_vars

\* C3: for an email E with no user, verify-otp with E and a code issued for E
\* that is unused and within its validity window (now <= expiresAt) is accepted,
\* and with the tempData signup returned for E it creates exactly one user, for
\* E and verified, and answers with a token for that user; verify-otp with a
\* code that matches no stored record of E answers InvalidOTP, creates no user
\* and marks no record used.
SignupThenVerifyCreatesUser ==
    [][\A r \in Reqs :
        /\ \A v \in VerifyInputs, t \in TempDataInputs :
              /\ VerifyOtp(r, v.email, v.code, t)
              /\ isEmail(v.email)
              /\ isCode(v.code)
              => IF \E o \in otps : /\ o.email = v.email
                                    /\ o.code = v.code
                                    /\ o.isUsed = "false"
                                    /\ now <= o.expiresAt
                 THEN req'[r].pc = "mark"
                 ELSE IF \A o \in otps : ~(o.email = v.email /\ o.code = v.code)
                 THEN /\ out'.status = 400
                      /\ out'.message = "Invalid or expired verification code"
                      /\ users' = users
                      /\ otps' = otps
                      /\ req'[r] = Idle
                 ELSE TRUE
        /\ /\ VerifyOtpCreateUser(r)
           /\ req[r].tempData.email = req[r].email
           /\ ~ \E u \in users : u.email = req[r].email
           => /\ \E u \in users' :
                    /\ users' = users \cup {u}
                    /\ u \notin users
                    /\ u.email = req[r].email
                    /\ u.isEmailVerified = "true"
                    /\ out'.token.userId = u._id
                    /\ out'.token.email = u.email
              /\ out'.status = 200
      ]_vars

AtMostOneWinnerPerRecord ==
    [][\A r \in Reqs :
        /\ req[r].kind \in {"verify-otp", "verify-login-otp"}
        /\ req'[r] = Idle
        /\ out'.token # NoToken
        => req[r].otpRecord \notin consumed
      ]_vars

\* C6: getValidOTPCode(email, code) returns a record exactly when a stored
\* record has that email and that code, is not marked used and has
\* now <= expiresAt, the expiry instant included; and it returns such a record.
ValidUntilExpiryInstant ==
    \A v \in VerifyInputs :
        LET accepted == {o \in otps : /\ o.email = v.email
                                      /\ o.code = v.code
                                      /\ o.isUsed = "false"
                                      /\ now <= o.expiresAt}
        IN  IF accepted = {}
            THEN getValidOTPCode(v.email, v.code) = NoOtp
            ELSE getValidOTPCode(v.email, v.code) \in accepted

\* C7: for every email and code, at most one stored OTP record is valid
\* (unexpired, unused, with that email and that code).
OneValidRecordPerEmailAndCode ==
    \A o, p \in otps :
        /\ o.email = p.email
        /\ o.code = p.code
        /\ o.isUsed = "false" /\ p.isUsed = "false"
        /\ now <= o.expiresAt /\ now <= p.expiresAt
        => o = p

\* C8: a signup request for an email that has a user record answers 400
\* AlreadyExists and ends there: no OTP record is created, no email is sent and
\* the users collection is unchanged.
SignupExistingRefused ==
    [][\A r \in Reqs, e \in EmailInputs :
        Signup(r, e) /\ (\E u \in users : u.email = e)
        => /\ out'.status = 400
           /\ out'.message = "User already exists with this email"
           /\ req'[r] = Idle
           /\ otps' = otps
           /\ nextOtpId' = nextOtpId
           /\ mailed' = mailed
           /\ users' = users
      ]_vars

\* C8: signup has been refused for an address that has an account
SignupRefused ==
    /\ out.kind = "signup"
    /\ out.message = "User already exists with this email"
    /\ \E u \in users : u.email \in EmailInputs

\* C9: a login request for an email with no user record answers 404, and one
\* for an email whose user is not email-verified answers 401; either ends
\* there, with no OTP record created and no email sent.
LoginUnknownOrUnverifiedRefused ==
    [][\A r \in Reqs, e \in EmailInputs :
        Login(r, e) /\ isEmail(e)
        => /\ (~ \E u \in users : u.email = e) => out'.status = 404
           /\ (\E u \in users : u.email = e /\ u.isEmailVerified # "true")
                 => out'.status = 401
           /\ (\A u \in users : u.email = e => u.isEmailVerified # "true")
                 => /\ req'[r] = Idle
                    /\ otps' = otps
                    /\ nextOtpId' = nextOtpId
                    /\ mailed' = mailed
      ]_vars

\* C9: login has been refused for the account that is not email-verified
LoginUnverifiedRefused ==
    /\ out.kind = "login"
    /\ out.status = 401
    /\ \E u \in users : u.isEmailVerified = "false"

\* C10: no step of a login or verify-login-otp request, successful or not,
\* creates or modifies a user record: a step that changes the users collection
\* is a step of neither.
LoginFlowKeepsUsers ==
    [][users' # users
        => \A r \in Reqs :
              /\ \A e \in EmailInputs : ~Login(r, e)
              /\ ~LoginIssue(r)
              /\ \A v \in VerifyInputs : ~VerifyLoginOtp(r, v.email, v.code)
              /\ ~VerifyLoginMark(r)
              /\ ~VerifyLoginGetUser(r)
      ]_vars

\* C10: a login has run to its token over a store that holds a user
LoginCompleted ==
    /\ out.kind = "verify-login-otp"
    /\ out.message = "Login successful"
    /\ out.token # NoToken
    /\ users # {}

\* C11: a resend-otp adds one fresh record and leaves every stored record as
\* it is; and a record that is unused and before its expiry stays stored as it
\* is, and accepted by getValidOTPCode, through every step but the
\* markOTPAsUsed of a verification that obtained that very record: consuming
\* another record of the address, or issuing another, does not touch it.
ResendLeavesOtherRecords ==
    [][/\ \A r \in Reqs, e \in ResendEmailInputs :
            ResendOtp(r, e) /\ e # ""
            => \E n \in otps' :
                  /\ n \notin otps
                  /\ otps' = otps \cup {n}
                  /\ n.email = e
                  /\ n.isUsed = "false"
                  /\ n.expiresAt = now + OTP_TTL_MS
       /\ \A o \in otps :
            o.isUsed = "false" /\ now < o.expiresAt
            => /\ getValidOTPCode(o.email, o.code) # NoOtp
               /\ \/ o \in otps'
                  \/ \E r \in Reqs :
                        /\ req[r].pc = "mark"
                        /\ req'[r].pc # "mark"
                        /\ req[r].otpRecord._id = o._id
      ]_vars

\* C11: of two records issued for one address, one has been consumed by a
\* verification and the other is still stored, unused and accepted
OneConsumedOtherStillValid ==
    \E o, p \in otps :
        /\ o._id # p._id
        /\ o.email = p.email
        /\ o.isUsed = "true"
        /\ \E c \in consumed : c._id = o._id
        /\ p.isUsed = "false"
        /\ now < p.expiresAt
        /\ getValidOTPCode(p.email, p.code) = p

\* C12: with one request at a time, a Google sign-in (either route) whose
\* verified email is that of a user with no googleId goes on to link it; the
\* link writes the asserted id into that user and nothing else but the write's
\* time, the number of users stays the same, and the token carries the _id the
\* user had before.
GoogleLinkKeepsAccount ==
    [][\A r \in Reqs :
        /\ /\ req[r].pc = "idle"
           /\ {req'[r].kind, out'.kind} \cap {"google", "google-callback"} # {}
           => /\ \A t \in IdTokenInputs :
                    /\ GooglePost(r, t)
                    /\ t.sig
                    /\ \E u \in users : u.email = t.email /\ u.googleId = NULL
                    => req'[r].pc = "link" /\ req'[r].googleUser.id = t.sub
              /\ \A c \in AuthCodeInputs :
                    /\ GoogleCallback(r, c)
                    /\ c.id_token.sig
                    /\ \E u \in users : u.email = c.id_token.email /\ u.googleId = NULL
                    => req'[r].pc = "link" /\ req'[r].googleUser.id = c.id_token.sub
        /\ req[r].pc = "link" /\ req'[r] = Idle
           => \E u \in users :
                 /\ u.email = req[r].googleUser.email
                 /\ u.googleId = NULL
                 /\ users' = (users \ {u}) \cup
                       {[u EXCEPT !.googleId = req[r].googleUser.id,
                                  !.updatedAt = now]}
                 /\ Cardinality(users') = Cardinality(users)
                 /\ out'.token # NoToken
                 /\ out'.token.userId = u._id
                 /\ out'.status \in {200, 302}
                 /\ out'.message \in {"Google authentication successful", "/?token="}
      ]_vars

\* C12: a Google sign-in has answered with a token for an account that signup
\* created, or that the store held from the start, and that now carries a
\* googleId
LinkedExistingAccount ==
    /\ out.kind \in {"google", "google-callback"}
    /\ out.token # NoToken
    /\ \E u \in users :
          /\ u._id = out.token.userId
          /\ u.googleId \in {"g1", "g2"}
          /\ u.dateOfBirth = "2000-01-01"
          /\ u.updatedAt = now

\* C13: with one request at a time, a Google sign-in (either route) whose
\* verified email has no user goes on to create one; the create adds exactly
\* one user, with that email, isEmailVerified "true", dateOfBirth "1990-01-01"
\* and the asserted id, and the token is for that user.
GoogleCreatesAccount ==
    [][\A r \in Reqs :
        /\ /\ req[r].pc = "idle"
           /\ {req'[r].kind, out'.kind} \cap {"google", "google-callback"} # {}
           => /\ \A t \in IdTokenInputs :
                    /\ GooglePost(r, t)
                    /\ t.sig
                    /\ ~ \E u \in users : u.email = t.email
                    => req'[r].pc = "createUser" /\ req'[r].googleUser.id = t.sub
              /\ \A c \in AuthCodeInputs :
                    /\ GoogleCallback(r, c)
                    /\ c.id_token.sig
                    /\ ~ \E u \in users : u.email = c.id_token.email
                    => req'[r].pc = "createUser"
                       /\ req'[r].googleUser.id = c.id_token.sub
        /\ /\ req[r].kind \in {"google", "google-callback"}
           /\ req[r].pc = "createUser"
           /\ req'[r] = Idle
           => \E u \in users' :
                 /\ u \notin users
                 /\ users' = users \cup {u}
                 /\ \A v \in users : v._id # u._id /\ v.email # u.email
                 /\ u.email = req[r].googleUser.email
                 /\ u.googleId = req[r].googleUser.id
                 /\ u.isEmailVerified = "true"
                 /\ u.dateOfBirth = "1990-01-01"
                 /\ out'.token # NoToken
                 /\ out'.token.userId = u._id
                 /\ out'.token.email = u.email
      ]_vars

\* C13: a Google sign-in has answered with a token for the account it created
CreatedGoogleAccount ==
    /\ out.kind \in {"google", "google-callback"}
    /\ out.token # NoToken
    /\ \E u \in users :
          /\ u._id = out.token.userId
          /\ u.googleId \in {"g1", "g2"}
          /\ u.dateOfBirth = "1990-01-01"
          /\ u.isEmailVerified = "true"
          /\ u.updatedAt = now

\* C14: with one request at a time, a Google sign-in (either route) whose
\* verified email is that of a user that has a googleId leaves the users
\* collection as it is, that user's googleId included, and answers at once with
\* a token for that user.
GoogleLinkedAccountUnchanged ==
    [][\A r \in Reqs :
        /\ req[r].pc = "idle"
        /\ {req'[r].kind, out'.kind} \cap {"google", "google-callback"} # {}
        => /\ \A t \in IdTokenInputs, u \in users :
                 /\ GooglePost(r, t)
                 /\ t.sig
                 /\ u.email = t.email /\ u.googleId # NULL
                 => /\ users' = users
                    /\ out'.status = 200
                    /\ out'.message = "Google authentication successful"
                    /\ out'.token.userId = u._id
                    /\ out'.token.email = u.email
                    /\ out'.token.sig = JWT_SECRET
           /\ \A c \in AuthCodeInputs, u \in users :
                 /\ GoogleCallback(r, c)
                 /\ c.id_token.sig
                 /\ u.email = c.id_token.email /\ u.googleId # NULL
                 => /\ users' = users
                    /\ out'.status = 302
                    /\ out'.message = "/?token="
                    /\ out'.token.userId = u._id
                    /\ out'.token.email = u.email
                    /\ out'.token.sig = JWT_SECRET
      ]_vars

\* C14: a Google sign-in has answered with a token for a linked account that
\* was last written at an earlier time
SignedInLinkedAccount ==
    /\ out.kind \in {"google", "google-callback"}
    /\ out.token # NoToken
    /\ \E u \in users :
          /\ u._id = out.token.userId
          /\ u.googleId \in {"g1", "g2"}
          /\ u.updatedAt < now
          /\ out.token.iat = now \div 1000

\* C15, as amended: with one request at a time, a Google sign-in that asserts
\* an id different from the googleId the user with that email already has is
\* not rejected, it answers with a token for that user, and the stored googleId
\* stays the one linked first; no step replaces a googleId a user has.
GoogleKeepsFirstLink ==
    [][/\ \A r \in Reqs :
            /\ req[r].pc = "idle"
            /\ {req'[r].kind, out'.kind} \cap {"google", "google-callback"} # {}
            => \A t \in {i \in IdTokens : i.sig}, u \in users :
                  /\ \/ GooglePost(r, t)
                     \/ GoogleCallback(r, [present |-> TRUE, id_token |-> t])
                  /\ u.email = t.email
                  /\ u.googleId \notin {NULL, t.sub}
                  => /\ out'.token # NoToken
                     /\ out'.token.userId = u._id
                     /\ \E v \in users' : v._id = u._id /\ v.googleId = u.googleId
       /\ \A u \in users :
            u.googleId # NULL
            => \E v \in users' : v._id = u._id /\ v.googleId = u.googleId
      ]_vars

\* C15: a Google sign-in has answered with a token for an account that a
\* Google sign-in created at an earlier time, and whose googleId is still the
\* one it was created with
SignedInOverFirstLink ==
    /\ out.kind \in {"google", "google-callback"}
    /\ out.token # NoToken
    /\ out.token.iat = now \div 1000
    /\ \E u \in users :
          /\ u._id = out.token.userId
          /\ u.googleId = "g1"
          /\ u.updatedAt < now
          /\ u.dateOfBirth = "1990-01-01"

\* C15, as stated: with one request at a time, a Google sign-in that asserts an
\* id different from the googleId the user with that email already has is not
\* rejected and leaves the asserted id stored in place of the earlier one.
GoogleOverwritesLink ==
    [][\A r \in Reqs :
        /\ req[r].pc = "idle"
        /\ {req'[r].kind, out'.kind} \cap {"google", "google-callback"} # {}
        => \A t \in {i \in IdTokens : i.sig}, u \in users :
              /\ \/ GooglePost(r, t)
                 \/ GoogleCallback(r, [present |-> TRUE, id_token |-> t])
              /\ u.email = t.email
              /\ u.googleId \notin {NULL, t.sub}
              => /\ out'.token # NoToken
                 /\ \E v \in users' : v._id = u._id /\ v.googleId = t.sub
      ]_vars

\* C16, as amended: a token signed at instant T (milliseconds) is accepted by a
\* protected route exactly while the clock's second is before T's second plus
\* seven days: at every time up to one second before T + 7 days (so at T + 6
\* days 23 hours) it is accepted, and at every time from T + 7 days on (so at
\* T + 7 days 1 hour) it is refused with 403.
TokenLivesToItsLastSecond ==
    [][\A r \in Reqs, i \in Issued :
        i.at <= now /\ GetMe(r, <<"Bearer", i.token>>)
        => /\ now + 1000 <= i.at + SevenDaysMs => out'.status = 200
           /\ now >= i.at + SevenDaysMs => out'.status = 403
           /\ out'.status = 403
                 <=> now \div 1000 >= (i.at \div 1000) + JWT_EXPIRES_IN
           /\ out'.status \in {200, 403}
      ]_vars

\* C16: one millisecond before seven days are over since the first tokens were
\* signed, a request with a token has been let through
AcceptedInLastSecond ==
    /\ now = SevenDaysMs - 1
    /\ out.kind = "me"
    /\ out.status = 200

\* C16, as stated: a token signed at instant T is accepted at every time before
\* T + 7 days and refused at every time after T + 7 days.
TokenLivesSevenDays ==
    [][\A r \in Reqs, i \in Issued :
        i.at <= now /\ GetMe(r, <<"Bearer", i.token>>)
        => /\ now < i.at + SevenDaysMs => out'.status = 200
           /\ now > i.at + SevenDaysMs => out'.status = 403
      ]_vars

\* C17: on every protected route, a request with no bearer token is answered
\* 401 and one whose token is malformed, wrongly signed or expired is answered
\* 403, with the middleware's message and nothing else, and the users and
\* notes collections stay as they are.
ProtectedRoutesDenied ==
    [][\A r \in Reqs, h \in Headers :
        /\ \/ GetMe(r, h)
           \/ GetNotes(r, h)
           \/ \E b \in NoteBodies : CreateNote(r, h, b)
           \/ \E n \in NoteIds, b \in NoteBodies : UpdateNote(r, h, n, b)
           \/ \E n \in NoteIds : DeleteNote(r, h, n)
        /\ \/ Len(h) < 2
           \/ h[2].sig # JWT_SECRET
           \/ now \div 1000 >= h[2].exp
        => /\ out'.status = IF Len(h) < 2 THEN 401 ELSE 403
           /\ out'.message = IF Len(h) < 2 THEN "Access token required"
                             ELSE "Invalid or expired token"
           /\ out'.data = {}
           /\ out'.token = NoToken
           /\ notes' = notes
           /\ nextNoteId' = nextNoteId
           /\ users' = users
      ]_vars

\* C17: a request has been answered 401 over a store that holds notes
DeniedOverStoredNotes ==
    /\ out.status = 401
    /\ out.message = "Access token required"
    /\ notes # {}

\* C18: on every protected route and for every other input, the step a request
\* with an expired, correctly signed token takes is the step the same request
\* takes with a malformed or wrongly signed token: the same response, status
\* and body, and the same state.
ExpiredLooksLikeInvalid ==
    [][\A r \in Reqs, i \in Issued, t \in {MalformedJwt, ForgedJwt} :
        now \div 1000 >= i.token.exp
        => LET e == <<"Bearer", i.token>>
               f == <<"Bearer", t>>
           IN  /\ GetMe(r, e) <=> GetMe(r, f)
               /\ GetNotes(r, e) <=> GetNotes(r, f)
               /\ \A b \in NoteBodies : CreateNote(r, e, b) <=> CreateNote(r, f, b)
               /\ \A n \in NoteIds, b \in NoteBodies :
                     UpdateNote(r, e, n, b) <=> UpdateNote(r, f, n, b)
               /\ \A n \in NoteIds : DeleteNote(r, e, n) <=> DeleteNote(r, f, n)
      ]_vars

\* C18: a request has been answered 403 at a time when every token the server
\* signed is expired
RefusedWhenAllExpired ==
    /\ out.status = 403
    /\ out.message = "Invalid or expired token"
    /\ \A i \in Issued : now \div 1000 >= i.token.exp

\* C19: for a user U with a token in force and a note N of another user, U's
\* update of N's id with a well-formed body and U's delete of N's id are
\* answered 404 with no data and leave the notes collection as it is; and the
\* list returned to U is the set of U's notes.
NotesOfOthersOutOfReach ==
    [][\A r \in Reqs, i \in Issued :
        now \div 1000 < i.token.exp
        => LET h == <<"Bearer", i.token>>
           IN  /\ \A n \in notes, b \in NoteBodies :
                     /\ n.userId # i.token.userId
                     /\ validUpdate(b)
                     /\ UpdateNote(r, h, n._id, b)
                     => /\ out'.status = 404
                        /\ out'.data = {}
                        /\ notes' = notes
               /\ \A n \in notes :
                     /\ n.userId # i.token.userId
                     /\ DeleteNote(r, h, n._id)
                     => /\ out'.status = 404
                        /\ out'.data = {}
                        /\ notes' = notes
               /\ GetNotes(r, h)
                     => out'.data = {n \in notes : n.userId = i.token.userId}
      ]_vars

\* C19: every id is that of a stored note, notes of both users are stored, and
\* an update or a delete has been answered 404
RefusedOnAnothersNote ==
    /\ out.kind \in {"update-note", "delete-note"}
    /\ out.status = 404
    /\ {n._id : n \in notes} = NoteIds
    /\ {n.userId : n \in notes} = {u._id : u \in ApiUsers}

\* C20: with either storage implementation, what a sweep leaves of the store is
\* exactly the records that were unexpired (now <= expiresAt) and unused when it
\* started.
SweepLeavesTheLiveRecords ==
    \A swept \in {cleanupExpiredOTPs, cleanupExpiredOTPsSql} :
        swept = {o \in otps : now <= o.expiresAt /\ o.isUsed = "false"}

\* C21: a sweep changes the answer of no verification, whenever it runs, between
\* requests or between the awaits of one: every getValidOTPCode call returns
\* after the sweep what it returned before it, and a record the sweep may delete
\* (expired or used) is one no later call accepts, whatever happens to it.
SweepKeepsVerifyOutcomes ==
    [][/\ Sweep => \A e \in Emails, c \in Codes :
                      getValidOTPCode(e, c)' = getValidOTPCode(e, c)
       /\ \A o \in otps, p \in otps' :
             /\ o._id = p._id
             /\ o.expiresAt < now \/ o.isUsed = "true"
             => p.expiresAt <= now' \/ p.isUsed = "true"
      ]_vars

\* C21: a sweep has deleted a consumed record before its expiry, and a
\* verification that ran afterwards has accepted another record
AcceptedAfterSweep ==
    /\ \E c \in consumed : c.expiresAt > now /\ ~\E o \in otps : o._id = c._id
    /\ \E r \in Reqs :
          /\ req[r].pc = "mark"
          /\ req[r].otpRecord \in otps

\* C22: a signup, login or resend whose OTP mail is not delivered (the record is
\* saved, the transport accepts nothing) ends in that step with an error
\* response and no token; the send is tried once; and a success response of
\* these routes is given only in a step in which the transport accepted the mail.
FailedSendFailsRequest ==
    [][/\ nextOtpId' # nextOtpId /\ mailed' = mailed
          => /\ out'.kind \in {"signup", "login", "resend-otp"}
             /\ out'.status \in {400, 500}
             /\ out'.token = NoToken
             /\ req'[1] = Idle
       /\ /\ out = NoResponse
          /\ out'.kind \in {"signup", "login", "resend-otp"}
          /\ out'.status = 200
          => mailed' = mailed + 1 /\ nextOtpId' = nextOtpId + 1
       /\ mailed' \in {mailed, mailed + 1}
      ]_vars

\* C22: the only OTP record ever saved was never mailed, and a signup has been
\* answered with its failure
SignupFailedOnSend ==
    /\ nextOtpId = 2
    /\ mailed = 0
    /\ out.kind = "signup"
    /\ out.status = 400
    /\ out.message = "Signup failed"

\* C23: a step of signup, login or resend that answers with an error leaves the
\* otpcodes collection as it was.
FailedRequestLeavesOtpStore ==
    [][/\ out = NoResponse
       /\ out'.kind \in {"signup", "login", "resend-otp"}
       /\ out'.status >= 400
       => otps' = otps
      ]_vars

\* C24: every failure of the store or the mail transport in signup, login,
\* verify-otp, verify-login-otp or resend-otp that ends the request is answered
\* with status 500.
CollaboratorFailureIs500 ==
    [][\A r \in Reqs :
        \/ SignupCreateFails(r) \/ SignupSendFails(r)
        \/ \E e \in EmailInputs : LoginLookupFails(r, e)
        \/ LoginCreateFails(r) \/ LoginSendFails(r)
        \/ \E e \in ResendEmailInputs : ResendCreateFails(r, e)
        \/ \E e \in ResendEmailInputs : ResendSendFails(r, e)
        \/ \E v \in VerifyInputs :
              \/ VerifyGetFails(r, "verify-otp", v.email, v.code)
              \/ VerifyGetFails(r, "verify-login-otp", v.email, v.code)
        \/ VerifyMarkFails(r) \/ VerifyOtpCreateUserFails(r)
        \/ VerifyLoginLookupFails(r)
        => out'.status = 500
      ]_vars

\* C25: when getUserByEmail fails, the request is answered with status 500 in
\* that step: signup does not go on to issue an OTP, login does not answer 404,
\* and a Google sign-in does not go on to create an account.
LookupFaultIsNotAbsence ==
    [][\A r \in Reqs :
        \/ \E e \in EmailInputs : SignupLookupFails(r, e) \/ LoginLookupFails(r, e)
        \/ \E t \in IdTokenInputs : GooglePostLookupFails(r, t)
        \/ \E c \in AuthCodeInputs : CallbackLookupFails(r, c)
        => /\ out'.status = 500
           /\ req'[r] = Idle
      ]_vars

\* C26: a request to signup, login, verify-otp, verify-login-otp or resend-otp
\* with a malformed email, a malformed code or a missing email is answered 400
\* in its first step, and that step creates or marks no OTP record, sends no
\* mail and creates no user.
MalformedInputRejected ==
    [][\A r \in Reqs :
        \/ Signup(r, MalformedEmail)
        \/ Login(r, MalformedEmail)
        \/ \E e \in {MalformedEmail, ""} : ResendOtp(r, e)
        \/ \E v \in VerifyInputs, t \in TempDataInputs :
              /\ ~(isEmail(v.email) /\ isCode(v.code))
              /\ VerifyOtp(r, v.email, v.code, t) \/ VerifyLoginOtp(r, v.email, v.code)
        => /\ out'.status = 400
           /\ otps' = otps
           /\ mailed' = mailed
           /\ users' = users
      ]_vars

\* C27: when a verify-otp or verify-login-otp request that got past the OTP
\* check ends without a token, the record it found is still unused in the
\* store and no user has been added by the step.
FailedVerifyKeepsCode ==
    [][\A r \in Reqs :
        /\ req[r].kind \in {"verify-otp", "verify-login-otp"}
        /\ req[r].pc \in {"mark", "createUser", "getUser"}
        /\ req'[r] = Idle
        /\ out'.token = NoToken
        => /\ \A o \in otps' : o._id = req[r].otpRecord._id => o.isUsed = "false"
           /\ users' = users
      ]_vars

\* C28: every record that enters the otpcodes collection expires exactly ten
\* minutes (600000 ms) after the instant of the step that creates it, and is
\* unused.
NewOtpLivesTenMinutes ==
    [][\A o \in otps' :
        (~\E p \in otps : p._id = o._id)
        => /\ o.expiresAt = now + 600000
           /\ o.isUsed = "false"
           /\ now' = now
      ]_vars

\* C28: a record created at a later time than the start, still unused, whose
\* expiry lies ten minutes ahead
OtpCreatedAfterStart ==
    /\ now = TickMs
    /\ \E o \in otps : o.expiresAt = now + 600000 /\ o.isUsed = "false"

\* C29: every code generateOTP has returned, as the record created with it
\* holds it, is a string of exactly six characters, each a decimal digit; and
\* before the first code is generated, the same is true of the code of every
\* draw Math.random() can make.
GeneratedCodesAreSixDigits ==
    /\ \A o \in otps :
          /\ Len(o.code) = 6
          /\ \A i \in 1..Len(o.code) : o.code[i] \in 0..9
    /\ otps = {} /\ nextOtpId = 1
       => \A d \in AllDraws :
             /\ Len(generateOTP(d)) = 6
             /\ \A i \in 1..Len(generateOTP(d)) : generateOTP(d)[i] \in 0..9

\* C29: the codes of the smallest and of the largest draw have both been
\* generated
BothEndsGenerated ==
    {o.code : o \in otps} = {generateOTP(0), generateOTP(899999)}

\* C30: the codes generateOTP can return include the fixed-width strings with
\* leading zeros: while a record can still be created, each of 000000, 000001
\* and 099999, like 100000 and 999999, is the code some draw gives the next
\* record.
EverySixDigitStringPossible ==
    nextOtpId <= MaxOtps
    => \A c \in {<<1, 0, 0, 0, 0, 0>>, <<9, 9, 9, 9, 9, 9>>, <<0, 9, 9, 9, 9, 9>>,
                 <<0, 0, 0, 0, 0, 1>>, <<0, 0, 0, 0, 0, 0>>} :
          \E d \in AllDraws :
             \E o \in createOTPCode("a@x.com", generateOTP(d), now + OTP_TTL_MS) :
                o._id = nextOtpId /\ o.code = c

EveryOtpEventuallyDeleted ==
    \A id \in 1..MaxOtps :
        (\E o \in otps :
            /\ o._id = id
            /\ o.isUsed = "true" \/ o.expiresAt < MaxTicks * TickMs)
        ~> ~(\E o \in otps : o._id = id)

\* C32: every record that could be created has been created, one of them was
\* consumed, and none is left in the store
AllOtpsDeleted ==
    /\ nextOtpId = MaxOtps + 1
    /\ consumed # {}
    /\ otps = {}

\* C33: however verify-otp requests and Google sign-ins for one address
\* interleave, no two user records ever have the same email; and a request
\* that comes to create its user when the address has one by then ends without
\* a token and adds no user.
EmailStaysUnique ==
    [][/\ \A u, v \in users' : u.email = v.email => u = v
       /\ \A r \in Reqs :
             /\ req[r].pc = "createUser"
             /\ req'[r] = Idle
             /\ \E u \in users :
                   u.email = IF req[r].kind = "verify-otp" THEN req[r].tempData.email
                             ELSE req[r].googleUser.email
             => /\ out'.token = NoToken
                /\ out'.status = 400
                /\ users' = users
      ]_vars

\* C33: a Google sign-in that found no user for its address has been refused
\* because a user with that address, created meanwhile by a verify-otp, was
\* there when it came to create its own
GoogleLostRace ==
    /\ out.kind = "google"
    /\ out.status = 400
    /\ out.message = "Google authentication failed"
    /\ \E u \in users : u.email = "a@x.com" /\ u.googleId = NULL /\ u.isEmailVerified = "true"

\* C34: on the same otpcodes collection at the same time the two storage
\* implementations answer every getValidOTPCode call alike, accept or reject,
\* and their sweeps retain the same records.
StoragesAgreeOnOtps ==
    /\ \A e \in Emails, c \in Codes :
          \A found \in getValidOTPCodeSql(e, c) :
             (found = NoOtp) <=> (getValidOTPCode(e, c) = NoOtp)
    /\ cleanupExpiredOTPsSql = cleanupExpiredOTPs

\* C35: whenever a stored record for (email, code) is unused and has not
\* reached its expiry, getValidOTPCode(email, code) returns a record, in either
\* storage implementation, whatever other records for the pair are stored.
ValidRecordAlwaysFound ==
    \A e \in Emails, c \in Codes :
        (\E o \in otps : o.email = e /\ o.code = c /\ o.isUsed = "false"
                         /\ now < o.expiresAt)
        => /\ getValidOTPCode(e, c) # NoOtp
           /\ NoOtp \notin getValidOTPCodeSql(e, c)

\* C36: a code is usable only in the flow that issued it: verify-otp never
\* creates a user on a record whose code login issued, and verify-login-otp
\* never gives a token on a record whose code signup issued.
CodeStaysInItsFlow ==
    [][/\ /\ req[1].kind = "verify-otp"
          /\ req[1].pc = "createUser"
          /\ users' # users
          => req[1].otpRecord.code # generateOTP(LoginDraw)
       /\ /\ req[1].kind = "verify-login-otp"
          /\ req[1].pc = "getUser"
          /\ out'.token # NoToken
          => req[1].otpRecord.code # generateOTP(SignupDraw)
      ]_vars

\* C37: while every stored user is email-verified, every step leaves every
\* stored user email-verified (the users that verify-otp and Google sign-in
\* create included) and no login is answered 401.
EveryUserStaysVerified ==
    [][(\A u \in users : u.isEmailVerified = "true")
        => /\ \A u \in users' : u.isEmailVerified = "true"
           /\ ~ (out'.kind = "login" /\ out'.status = 401)
      ]_vars

\* C37: a login has been accepted over a store that holds a user created by
\* verify-otp and a user created by Google sign-in, all of them verified
LoginAcceptedAmongCreatedUsers ==
    /\ out.kind = "login"
    /\ out.status = 200
    /\ \E u \in users : u.googleId = NULL
    /\ \E u \in users : u.googleId # NULL
    /\ \A u \in users : u.isEmailVerified = "true"

\* C38: the instances of useAuth agree: the token of every mounted instance is
\* the one localStorage holds; when GET /api/auth/me succeeds while
\* localStorage holds the token of a login, every mounted instance reports
\* isAuthenticated; after logout() in one instance no instance reports it.
InstancesAgree ==
    [][/\ \A i \in Hooks : hooks'[i].mounted => hooks'[i].token = localStorage'
       /\ ReceiveMe /\ out.status = 200 /\ localStorage # NoToken
          => \A i \in Hooks : hooks[i].mounted => isAuthenticated(i)'
       /\ (\E i \in Hooks : LogoutCall(i))
          => \A j \in Hooks : ~ isAuthenticated(j)'
      ]_vars

\* C39: logout() of an instance, and a 401 or 403 answer to the request its
\* queryFn sent, remove the token from localStorage and from the instance's
\* state; an instance whose token is null keeps it null through every step that
\* is not a login(token) of its own; and an instance whose token is null does
\* not report isAuthenticated.
TokenGoneUntilNextLogin ==
    [][\A i \in Hooks :
        /\ LogoutCall(i) \/ (ReceiveMe /\ out.status \in {401, 403} /\ meQuery.by = i)
           => /\ localStorage' = NoToken
              /\ hooks'[i].token = NoToken
              /\ ~ isAuthenticated(i)'
        /\ /\ hooks[i].mounted /\ hooks'[i].mounted
           /\ hooks[i].token = NoToken
           /\ ~ \E t \in BearerTokens : LoginCall(i, t)
           => hooks'[i].token = NoToken
        /\ hooks'[i].token = NoToken => ~ isAuthenticated(i)'
      ]_vars

\* C39: the server has refused, after seven days, the token an instance sent,
\* and a mounted instance holds no token, nor does localStorage
TokenRefusedAndRemoved ==
    /\ meQuery.status = 403
    /\ ~ meQuery.fetching
    /\ localStorage = NoToken
    /\ \E i \in Hooks : hooks[i].mounted /\ hooks[i].token = NoToken
    /\ now >= SevenDaysMs

====
